---------------------------- MODULE Spec2Model ----------------------------
(***************************************************************************)
(* Model of two components of MVE:                                         *)
(*                                                                         *)
(*   - sfm::NearestNeighbor<T>::find (libs/sfm/nearest_neighbor.cc), the   *)
(*     exhaustive top-2 search, for T = short and T = float, in the build  *)
(*     with the scalar loop and in the build with the SSE loop;            *)
(*   - the dmrecon application (apps/dmrecon/dmrecon.cc): the derivation   *)
(*     of the scale from --max-pixels, the single master view run and the  *)
(*     OpenMP loop over the list of views.                                 *)
(*                                                                         *)
(* Each component has its own specification (SpecNN, SpecScale, SpecSched) *)
(* over the module's variables; a specification leaves the variables of    *)
(* the other components at their idle value.                               *)
(***************************************************************************)
EXTENDS Integers, Naturals, Sequences, FiniteSets, TLC

VARIABLES
    \* ---- NearestNeighbor<T>::find ----
    elem_type,      \* T: "short" or "float" ("none": matcher not in use)
    query,          \* the query descriptor
    elements,       \* this->elements, one sequence per descriptor
    descr_iter,     \* number of descriptors the scan has consumed
    result,         \* *result in the build with the scalar loop
    result_sse,     \* *result in the build with the SSE loop
    nn_pc,          \* position inside find()
    \* ---- get_scale_from_max_pixels ----
    sc_width, sc_height, sc_max_pixels, sc_scale, sc_pc,
    \* ---- dmrecon main ----
    master_id,      \* conf.master_id (-1: not given)
    view_ids,       \* conf.view_ids
    force_recon,    \* conf.force_recon
    max_pixels,     \* conf.max_pixels (0: disabled)
    mvs,            \* conf.mvs: its fields refViewNr and scale
    views,          \* scene->get_views(), indexed from 0
    main_pc,        \* position of the main thread
    exit_status,    \* value returned by main (-1: still running)
    scene_saved,    \* scene->save_views() was called
    next_iter,      \* next iteration the dynamic schedule hands out (1-based)
    wpc,            \* position of each thread of the parallel loop
    wjob,           \* iteration each thread is working on (0: none)
    job_state,      \* state of the job of each iteration
    recon_calls,    \* the calls of reconstruct() so far
    persisted,      \* iterations whose save_mve_file() returned
    ref_views,      \* the view ids given to fancyProgressPrinter.addRefView(s)
    progress        \* per job, what its ProgressHandle told the printer so far

nn_vars == <<elem_type, query, elements, descr_iter, result, result_sse, nn_pc>>
sc_vars == <<sc_width, sc_height, sc_max_pixels, sc_scale, sc_pc>>
conf_vars == <<master_id, force_recon, max_pixels, views>>
sched_vars == <<master_id, view_ids, force_recon, max_pixels, mvs, views, main_pc,
                exit_status, scene_saved, next_iter, wpc, wjob, job_state,
                recon_calls, persisted, ref_views, progress>>

-----------------------------------------------------------------------------
(***************************************************************************)
(* Arithmetic helpers.                                                     *)
(***************************************************************************)
Min(a, b) == IF a < b THEN a ELSE b
Max(a, b) == IF a > b THEN a ELSE b

RECURSIVE Pow4(_)
Pow4(s) == IF s = 0 THEN 1 ELSE 4 * Pow4(s - 1)

\* std::numeric_limits<short>::max()
SHRT_MAX == 32767

\* Conversion of an int to short (and the 16-bit lanes of _mm_mullo_epi16 /
\* _mm_add_epi16): the value modulo 2^16, as two's complement.
ToShort(x) == ((x + 32768) % 65536) - 32768

-----------------------------------------------------------------------------
(***************************************************************************)
(* NearestNeighbor<T>::find                                                *)
(*                                                                         *)
(* float values are modelled exactly: every component is a multiple of     *)
(* 1/4 and is stored as its numerator over FloatDen; inner products and    *)
(* distances are numerators over FloatDen^2 = FloatOne.  All these values  *)
(* and their sums are exactly representable in binary32, so the float      *)
(* arithmetic of the code is exact on them.                                *)
(***************************************************************************)
FloatDen == 4
FloatOne == FloatDen * FloatDen

\* Stands for std::numeric_limits<float>::max() (in units of 1/FloatOne): the
\* largest magnitude the model's integers leave room for, far above every
\* inner product of unit-length descriptors.  2 - 2 * (-FLT_MAX) is +inf in
\* the code and a value above FloatOne here; the clamp maps both to 1.
FLT_MAX == 1000000000

\* Elements per __m128i register (8 shorts) and per __m128 register (4 floats).
LaneShorts == 8
LaneFloats == 4

\* Bounds of the model.
DimBlocks == 3         \* short descriptors have LaneShorts * DimBlocks components
FloatBlocks == 2       \* float descriptors have LaneFloats * FloatBlocks components
MaxElements == 3       \* num_elements ranges over 0 .. MaxElements

Dimensions(type) ==
    IF type = "short" THEN LaneShorts * DimBlocks ELSE LaneFloats * FloatBlocks

\* A descriptor whose first k components are a and whose others are 0.
Fill(a, k, dim) == [j \in 1..dim |-> IF j <= k THEN a ELSE 0]
\* A descriptor that starts with the components of s, padded with 0.
Pad(s, dim) == [j \in 1..dim |-> IF j <= Len(s) THEN s[j] ELSE 0]
Negate(v) == [j \in 1..Len(v) |-> 0 - v[j]]

\* A quantized descriptor of length exactly 127 that is not an axis:
\* 125^2 + 22^2 + 4^2 + 2^2 = 127^2.
ShortUnit == Pad(<<125, 22, 4, 2>>, Dimensions("short"))

\* Quantized descriptors: signed 8-bit component values in shorts.
ShortDescriptors ==
    { Fill(a, k, Dimensions("short")) :
        a \in {-127, 1, 127}, k \in {1, 3, Dimensions("short")} }
    \cup {ShortUnit}
ShortQueries ==
    { Fill(127, k, Dimensions("short")) : k \in {1, 3, Dimensions("short")} }
    \cup {ShortUnit}

\* Unit-length float descriptors (numerators over FloatDen).
FloatBase ==
    { Pad(<<4>>, Dimensions("float")),
      Pad(<<0, 4>>, Dimensions("float")),
      Pad(<<2, 2, 2, 2>>, Dimensions("float")),
      Pad(<<3, 2, 1, 1, 1>>, Dimensions("float")) }
FloatDescriptors == FloatBase \cup { Negate(v) : v \in FloatBase }
FloatQueries == FloatBase

Descriptors(type) == IF type = "short" THEN ShortDescriptors ELSE FloatDescriptors
Queries(type) == IF type = "short" THEN ShortQueries ELSE FloatQueries

SeqsUpTo(S, n) == UNION { [1..m -> S] : m \in 0..n }

\* The exact inner product of the first n components: the scalar loops
\* (int accumulator for short, float accumulator for float).
RECURSIVE InnerProduct(_, _, _)
InnerProduct(q, d, n) ==
    IF n = 0 THEN 0 ELSE InnerProduct(q, d, n - 1) + q[n] * d[n]

\* Lane l (0-based) of reg_result after the first b registers of the SSE2
\* loop: 16-bit multiply (low half) and 16-bit add, both wrapping.
RECURSIVE LaneResult16(_, _, _, _)
LaneResult16(q, d, l, b) ==
    IF b = 0 THEN 0
    ELSE ToShort(LaneResult16(q, d, l, b - 1)
            + ToShort(q[LaneShorts * (b - 1) + l + 1] * d[LaneShorts * (b - 1) + l + 1]))

\* Lane l of sum after the first b registers of the SSE3 loop (exact).
RECURSIVE LaneResultF(_, _, _, _)
LaneResultF(q, d, l, b) ==
    IF b = 0 THEN 0
    ELSE LaneResultF(q, d, l, b - 1)
            + q[LaneFloats * (b - 1) + l + 1] * d[LaneFloats * (b - 1) + l + 1]

\* tmp[0] + ... + tmp[n - 1] of the SSE2 loop, as an int.
RECURSIVE SumLanes16(_, _, _, _)
SumLanes16(q, d, n, b) ==
    IF n = 0 THEN 0 ELSE SumLanes16(q, d, n - 1, b) + LaneResult16(q, d, n - 1, b)

\* The two _mm_hadd_ps of the SSE3 loop: the sum of the first n lanes.
RECURSIVE SumLanesF(_, _, _, _)
SumLanesF(q, d, n, b) ==
    IF n = 0 THEN 0 ELSE SumLanesF(q, d, n - 1, b) + LaneResultF(q, d, n - 1, b)

\* inner_product of the SSE loops: the horizontal sum of the lanes.
SSEInnerProduct(type, q, d) ==
    IF type = "short"
    THEN SumLanes16(q, d, LaneShorts, Len(q) \div LaneShorts)
    ELSE SumLanesF(q, d, LaneFloats, Len(q) \div LaneFloats)

\* inner_product of the scalar loops.
ScalarInnerProduct(type, q, d) == InnerProduct(q, d, Len(q))

\* Assignment of inner_product to a distance field of Result: a short field
\* for T = short, a float field for T = float.
StoreDist(type, ip) == IF type = "short" THEN ToShort(ip) ELSE ip

\* The initialisation with the largest values instead of the smallest (a
\* mutant of InitResult).
InitResultLargest(type) ==
    [ index_1st_best |-> 0, index_2nd_best |-> 0,
      dist_1st_best |-> IF type = "short" THEN SHRT_MAX ELSE FLT_MAX,
      dist_2nd_best |-> IF type = "short" THEN SHRT_MAX ELSE FLT_MAX ]

\* The fields of *result after the initialisation.
InitResult(type) ==
    [ index_1st_best |-> 0, index_2nd_best |-> 0,
      dist_1st_best |-> IF type = "short" THEN 0 - SHRT_MAX ELSE 0 - FLT_MAX,
      dist_2nd_best |-> IF type = "short" THEN 0 - SHRT_MAX ELSE 0 - FLT_MAX ]

\* "Check if new largest inner product has been found."
UpdateBest(type, res, ip, idx) ==
    IF ip > res.dist_2nd_best
    THEN IF ip > res.dist_1st_best
         THEN [ index_2nd_best |-> res.index_1st_best,
                dist_2nd_best  |-> res.dist_1st_best,
                index_1st_best |-> idx,
                dist_1st_best  |-> StoreDist(type, ip) ]
         ELSE [ res EXCEPT !.index_2nd_best = idx,
                           !.dist_2nd_best = StoreDist(type, ip) ]
    ELSE res

\* The conversion to a distance without the clamp of the inner product to
\* [0, 127^2] (a mutant of FinalizeShort).
FinalizeShortNoClamp(d) == ToShort(32258 - 2 * d)

\* The conversion 2 - d instead of 2 - 2 * d (a mutant of FinalizeFloat).
FinalizeFloatNoFactor(d) == Min(FloatOne, Max(0, 2 * FloatOne - d))

\* "Compute actual square distances."
FinalizeShort(d) == ToShort(32258 - 2 * ToShort(Min(16129, Max(0, d))))
FinalizeFloat(d) == Min(FloatOne, Max(0, 2 * FloatOne - 2 * d))
FinalizeDist(type, d) == IF type = "short" THEN FinalizeShort(d) ELSE FinalizeFloat(d)

FinalizeResult(type, res) ==
    [ res EXCEPT !.dist_1st_best = FinalizeDist(type, res.dist_1st_best),
                 !.dist_2nd_best = FinalizeDist(type, res.dist_2nd_best) ]

NNIdle ==
    /\ elem_type = "none"
    /\ query = <<>>
    /\ elements = <<>>
    /\ descr_iter = 0
    /\ result = InitResult("none")
    /\ result_sse = InitResult("none")
    /\ nn_pc = "idle"

\* A matcher over any descriptor space of the model, about to run find().
NNInit ==
    /\ elem_type \in {"short", "float"}
    /\ query \in Queries(elem_type)
    /\ elements \in SeqsUpTo(Descriptors(elem_type), MaxElements)
    /\ descr_iter = 0
    /\ result = InitResult("none")
    /\ result_sse = InitResult("none")
    /\ nn_pc = "call"

\* Entry of find(): the initialisation of *result.
FindInit ==
    /\ nn_pc = "call"
    /\ result' = InitResult(elem_type)
    /\ result_sse' = InitResult(elem_type)
    /\ descr_iter' = 0
    /\ nn_pc' = "scan"
    /\ UNCHANGED <<elem_type, query, elements>>

\* One iteration of the loop over the descriptors.
FindScan ==
    /\ nn_pc = "scan"
    /\ descr_iter < Len(elements)
    /\ LET d == elements[descr_iter + 1]
       IN  /\ result' = UpdateBest(elem_type, result,
                            ScalarInnerProduct(elem_type, query, d), descr_iter)
           /\ result_sse' = UpdateBest(elem_type, result_sse,
                            SSEInnerProduct(elem_type, query, d), descr_iter)
    /\ descr_iter' = descr_iter + 1
    /\ UNCHANGED <<elem_type, query, elements, nn_pc>>

\* End of the loop: the conversion of the inner products to distances.
FindFinalize ==
    /\ nn_pc = "scan"
    /\ descr_iter = Len(elements)
    /\ result' = FinalizeResult(elem_type, result)
    /\ result_sse' = FinalizeResult(elem_type, result_sse)
    /\ nn_pc' = "done"
    /\ UNCHANGED <<elem_type, query, elements, descr_iter>>

-----------------------------------------------------------------------------
(***************************************************************************)
(* get_scale_from_max_pixels                                               *)
(***************************************************************************)
\* Bounds of the model: image sides and pixel budgets.
MaxSide == 9
MaxBudget == 8

\* std::ceil(std::log(ratio) / std::log(4.0f)) for ratio = n / m > 1: the
\* least s with n <= m * 4^s.
RECURSIVE CeilLog4(_, _, _)
CeilLog4(n, m, s) == IF n <= m * Pow4(s) THEN s ELSE CeilLog4(n, m, s + 1)

\* The least s with (n >> (2 * s)) <= m.
RECURSIVE ShiftScale(_, _, _)
ShiftScale(n, m, s) == IF n \div Pow4(s) <= m THEN s ELSE ShiftScale(n, m, s + 1)

\* get_scale_from_max_pixels as it would be with the quotient truncated to an
\* integer before the logarithm (a mutant of ScaleFromPixels).
ScaleFromPixelsTruncated(width, height, maxpix) ==
    IF width * height <= maxpix
    THEN 0
    ELSE Max(0, ShiftScale(width * height, maxpix, 0))

\* The part of get_scale_from_max_pixels after the view and its image proxy
\* were found.
ScaleFromPixels(width, height, maxpix) ==
    IF width * height <= maxpix
    THEN 0
    ELSE Max(0, CeilLog4(width * height, maxpix, 0))

ScaleIdle ==
    /\ sc_width = 0 /\ sc_height = 0 /\ sc_max_pixels = 0
    /\ sc_scale = 0 /\ sc_pc = "idle"

ScaleInit ==
    /\ sc_width \in 1..MaxSide
    /\ sc_height \in 1..MaxSide
    /\ sc_max_pixels \in 1..MaxBudget
    /\ sc_scale = 0
    /\ sc_pc = "call"

GetScale ==
    /\ sc_pc = "call"
    /\ sc_scale' = ScaleFromPixels(sc_width, sc_height, sc_max_pixels)
    /\ sc_pc' = "done"
    /\ UNCHANGED <<sc_width, sc_height, sc_max_pixels>>

-----------------------------------------------------------------------------
(***************************************************************************)
(* dmrecon: main                                                           *)
(***************************************************************************)
\* Bounds of the model.
NumViews == 2          \* scene->get_views().size()
MaxJobs == 2           \* longest list of view ids given with --list-view
NumThreads == 2        \* threads of the OpenMP team

Threads == 1..NumThreads
Terminal == {"SKIPPED", "DONE", "FAILED"}

\* A view of the scene: NULL (present = FALSE) or a view with a camera, the
\* scales s for which the embedding "depth-L<s>" exists, and the image that
\* get_proxy(imageEmbedding) finds (has_image = FALSE: no such embedding).
ViewChoices ==
    { [present |-> FALSE, camera_valid |-> FALSE, depth_scales |-> {},
       has_image |-> FALSE, width |-> 0, height |-> 0],
      [present |-> TRUE, camera_valid |-> FALSE, depth_scales |-> {},
       has_image |-> FALSE, width |-> 0, height |-> 0],
      [present |-> TRUE, camera_valid |-> TRUE, depth_scales |-> {0},
       has_image |-> TRUE, width |-> 2, height |-> 2],
      [present |-> TRUE, camera_valid |-> TRUE, depth_scales |-> {1},
       has_image |-> TRUE, width |-> 4, height |-> 4] }

\* Values of --max-pixels (0: option not given) and of --scale.
MaxPixelsChoices == {0, 4}
ScaleChoices == {0, 1}

\* id >= views.size() for the std::size_t id read from the list of ints.
OutOfRange(vs, id) == id < 0 \/ id >= NumViews

\* get_scale_from_max_pixels(scene, app_settings, mvs_settings)
GetScaleFromMaxPixels(vs, refViewNr, maxpix) ==
    IF OutOfRange(vs, refViewNr)
    THEN 0
    ELSE IF ~vs[refViewNr].present
    THEN 0
    ELSE IF ~vs[refViewNr].has_image
    THEN 0
    ELSE ScaleFromPixels(vs[refViewNr].width, vs[refViewNr].height, maxpix)

\* settings.scale of the job for view id in the parallel loop.
JobScale(id) ==
    IF max_pixels > 0 THEN GetScaleFromMaxPixels(views, id, max_pixels) ELSE mvs.scale

\* The checks of the loop body without the check of the camera (a mutant of SkipJob).
SkipJobNoCameraCheck(id) ==
    IF OutOfRange(views, id)
    THEN TRUE
    ELSE IF ~views[id].present
    THEN TRUE
    ELSE ~force_recon /\ JobScale(id) \in views[id].depth_scales

\* The checks of the loop body with --force left out of the third: a view
\* whose embedding exists is always skipped (a mutant of SkipJob).
SkipJobIgnoreForce(id) ==
    IF OutOfRange(views, id)
    THEN TRUE
    ELSE IF ~views[id].present \/ ~views[id].camera_valid
    THEN TRUE
    ELSE JobScale(id) \in views[id].depth_scales

\* The three checks of the loop body that end an iteration with "continue".
SkipJob(id) ==
    IF OutOfRange(views, id)
    THEN TRUE
    ELSE IF ~views[id].present \/ ~views[id].camera_valid
    THEN TRUE
    ELSE ~force_recon /\ JobScale(id) \in views[id].depth_scales

SchedIdle ==
    /\ master_id = -1
    /\ view_ids = <<>>
    /\ force_recon = FALSE
    /\ max_pixels = 0
    /\ mvs = [refViewNr |-> 0, scale |-> 0]
    /\ views = <<>>
    /\ main_pc = "idle"
    /\ exit_status = -1
    /\ scene_saved = FALSE
    /\ next_iter = 1
    /\ wpc = <<>>
    /\ wjob = <<>>
    /\ job_state = <<>>
    /\ recon_calls = {}
    /\ persisted = {}
    /\ ref_views = <<>>
    /\ progress = <<>>

\* main after the options were parsed and the scene was loaded.  With
\* --master-view, conf.mvs.refViewNr still has the value the mvs::Settings
\* constructor gave it, which names any view; the loop never reads it.
\* With --max-pixels, conf.mvs.scale is overwritten before it is read, so
\* --scale is only drawn without --max-pixels.
SchedInit ==
    /\ master_id \in -1..NumViews
    /\ view_ids \in IF master_id >= 0 THEN {<<>>} ELSE SeqsUpTo(0..NumViews, MaxJobs)
    /\ force_recon \in BOOLEAN
    /\ max_pixels \in MaxPixelsChoices
    /\ mvs \in [refViewNr : IF master_id >= 0 THEN 0..(NumViews - 1) ELSE {0},
                scale : IF max_pixels > 0 THEN {0} ELSE ScaleChoices]
    /\ views \in [0..(NumViews - 1) -> ViewChoices]
    /\ main_pc = "start"
    /\ exit_status = -1
    /\ scene_saved = FALSE
    /\ next_iter = 1
    /\ wpc = [w \in Threads |-> "idle"]
    /\ wjob = [w \in Threads |-> 0]
    /\ job_state = <<>>
    /\ recon_calls = {}
    /\ persisted = {}
    /\ ref_views = <<>>
    /\ progress = <<>>

\* ---- reconstruct(): the ProgressHandle ----

\* "ProgressHandle handle(fancyProgressPrinter, settings)": the printer shows
\* the view of the settings as started.
HandleCreate(p) == Append(p, "started")

\* handle.setDone()
HandleSetDone(p) == Append(p, "done")

\* A destructor that sets the status to failed in every case (a mutant of
\* HandleDestroy).
HandleDestroyAlways(p) == Append(p, "failed")

\* "destructor of ProgressHandle sets status to failed if setDone() is not
\* called (this happens when an exception is thrown in mvs::DMRecon)"
HandleDestroy(p) ==
    IF p # <<>> /\ p[Len(p)] = "done" THEN p ELSE Append(p, "failed")

\* ---- single master view ----

\* The single master view run with the checks of the loop over a list: no
\* call of reconstruct() for a view the loop would skip (a mutant of
\* SingleSetup).
SingleSetupWithSkip ==
    /\ main_pc = "start"
    /\ master_id >= 0
    /\ LET scale == IF max_pixels > 0
                    THEN GetScaleFromMaxPixels(views, mvs.refViewNr, max_pixels)
                    ELSE mvs.scale
       IN  /\ mvs' = [refViewNr |-> master_id, scale |-> scale]
           /\ recon_calls' =
                  IF SkipJob(master_id)
                  THEN recon_calls
                  ELSE recon_calls \cup
                           {[job |-> 1, view |-> master_id, scale |-> scale]}
    /\ ref_views' = <<master_id>>
    /\ progress' = IF SkipJob(master_id) THEN <<<<>>>> ELSE <<HandleCreate(<<>>)>>
    /\ job_state' = IF SkipJob(master_id) THEN <<"SKIPPED">> ELSE <<"RUNNING">>
    /\ main_pc' = IF SkipJob(master_id) THEN "finish" ELSE "single_recon"
    /\ UNCHANGED <<conf_vars, view_ids, exit_status, scene_saved, next_iter,
                   wpc, wjob, persisted>>

\* conf.master_id >= 0: the scale is derived, refViewNr is set, the view is
\* given to the progress printer and reconstruct() is entered.
SingleSetup ==
    /\ main_pc = "start"
    /\ master_id >= 0
    /\ LET scale == IF max_pixels > 0
                    THEN GetScaleFromMaxPixels(views, mvs.refViewNr, max_pixels)
                    ELSE mvs.scale
       IN  /\ mvs' = [refViewNr |-> master_id, scale |-> scale]
           /\ recon_calls' = recon_calls \cup
                  {[job |-> 1, view |-> master_id, scale |-> scale]}
    /\ ref_views' = <<master_id>>
    /\ progress' = <<HandleCreate(<<>>)>>
    /\ job_state' = <<"RUNNING">>
    /\ main_pc' = "single_recon"
    /\ UNCHANGED <<conf_vars, view_ids, exit_status, scene_saved, next_iter,
                   wpc, wjob, persisted>>

\* reconstruct() returns.
SingleReconReturn ==
    /\ main_pc = "single_recon"
    /\ job_state' = <<"DONE">>
    /\ progress' = <<HandleDestroy(HandleSetDone(progress[1]))>>
    /\ main_pc' = "finish"
    /\ UNCHANGED <<conf_vars, view_ids, mvs, exit_status, scene_saved, next_iter,
                   wpc, wjob, recon_calls, persisted, ref_views>>

\* reconstruct() throws and main continues after the handler (a mutant of
\* SingleReconRaise).
SingleReconRaiseContinue ==
    /\ main_pc = "single_recon"
    /\ job_state' = <<"FAILED">>
    /\ progress' = <<HandleDestroy(progress[1])>>
    /\ main_pc' = "finish"
    /\ UNCHANGED <<conf_vars, view_ids, mvs, exit_status, scene_saved, next_iter,
                   wpc, wjob, recon_calls, persisted, ref_views>>

\* reconstruct() throws: the handler prints the error and returns 1.
SingleReconRaise ==
    /\ main_pc = "single_recon"
    /\ job_state' = <<"FAILED">>
    /\ progress' = <<HandleDestroy(progress[1])>>
    /\ exit_status' = 1
    /\ main_pc' = "exit"
    /\ UNCHANGED <<conf_vars, view_ids, mvs, scene_saved, next_iter,
                   wpc, wjob, recon_calls, persisted, ref_views>>

\* ---- list of views ----

\* conf.master_id < 0: an empty list becomes the list of all views, the list
\* is given to the progress printer and the parallel loop is entered.
BatchSetup ==
    /\ main_pc = "start"
    /\ master_id < 0
    /\ view_ids' = IF view_ids = <<>>
                   THEN [i \in 1..NumViews |-> i - 1]
                   ELSE view_ids
    /\ ref_views' = view_ids'
    /\ job_state' = [i \in 1..Len(view_ids') |-> "PENDING"]
    /\ progress' = [i \in 1..Len(view_ids') |-> <<>>]
    /\ main_pc' = "batch"
    /\ UNCHANGED <<conf_vars, mvs, exit_status, scene_saved, next_iter,
                   wpc, wjob, recon_calls, persisted>>

\* An idle thread takes the next iteration, which ends with "continue".
IterationSkip(w) ==
    /\ main_pc = "batch"
    /\ wpc[w] = "idle"
    /\ next_iter <= Len(view_ids)
    /\ SkipJob(view_ids[next_iter])
    /\ job_state' = [job_state EXCEPT ![next_iter] = "SKIPPED"]
    /\ next_iter' = next_iter + 1
    /\ UNCHANGED <<conf_vars, view_ids, mvs, main_pc, exit_status, scene_saved,
                   wpc, wjob, recon_calls, persisted, ref_views, progress>>

\* An idle thread takes the next iteration, sets up the settings and
\* enters reconstruct().
IterationStart(w) ==
    /\ main_pc = "batch"
    /\ wpc[w] = "idle"
    /\ next_iter <= Len(view_ids)
    /\ ~SkipJob(view_ids[next_iter])
    /\ job_state' = [job_state EXCEPT ![next_iter] = "RUNNING"]
    /\ recon_calls' = recon_calls \cup
           {[job |-> next_iter, view |-> view_ids[next_iter],
             scale |-> JobScale(view_ids[next_iter])]}
    /\ progress' = [progress EXCEPT ![next_iter] = HandleCreate(@)]
    /\ wpc' = [wpc EXCEPT ![w] = "recon"]
    /\ wjob' = [wjob EXCEPT ![w] = next_iter]
    /\ next_iter' = next_iter + 1
    /\ UNCHANGED <<conf_vars, view_ids, mvs, main_pc, exit_status, scene_saved,
                   persisted, ref_views>>

\* reconstruct() returns; the thread goes on to views[id]->save_mve_file().
ReconReturn(w) ==
    /\ main_pc = "batch"
    /\ wpc[w] = "recon"
    /\ job_state' = [job_state EXCEPT ![wjob[w]] = "DONE"]
    /\ progress' = [progress EXCEPT ![wjob[w]] = HandleDestroy(HandleSetDone(@))]
    /\ wpc' = [wpc EXCEPT ![w] = "save"]
    /\ UNCHANGED <<conf_vars, view_ids, mvs, main_pc, exit_status, scene_saved,
                   next_iter, wjob, recon_calls, persisted, ref_views>>

\* reconstruct() throws and nothing catches the exception inside the loop: the
\* program ends (a mutant of ReconRaise).
ReconRaiseUncaught(w) ==
    /\ main_pc = "batch"
    /\ wpc[w] = "recon"
    /\ job_state' = [job_state EXCEPT ![wjob[w]] = "FAILED"]
    /\ progress' = [progress EXCEPT ![wjob[w]] = HandleDestroy(@)]
    /\ main_pc' = "exit"
    /\ exit_status' = 1
    /\ UNCHANGED <<conf_vars, view_ids, mvs, scene_saved, next_iter, wpc, wjob,
                   recon_calls, persisted, ref_views>>

\* reconstruct() throws and the view is saved all the same, as if
\* save_mve_file() stood after the handler (a mutant of ReconRaise).
ReconRaiseThenSave(w) ==
    /\ main_pc = "batch"
    /\ wpc[w] = "recon"
    /\ job_state' = [job_state EXCEPT ![wjob[w]] = "FAILED"]
    /\ progress' = [progress EXCEPT ![wjob[w]] = HandleDestroy(@)]
    /\ wpc' = [wpc EXCEPT ![w] = "save"]
    /\ UNCHANGED <<conf_vars, view_ids, mvs, main_pc, exit_status, scene_saved,
                   next_iter, wjob, recon_calls, persisted, ref_views>>

\* reconstruct() throws: the handler of the loop body prints the error and
\* the thread is free for the next iteration.
ReconRaise(w) ==
    /\ main_pc = "batch"
    /\ wpc[w] = "recon"
    /\ job_state' = [job_state EXCEPT ![wjob[w]] = "FAILED"]
    /\ progress' = [progress EXCEPT ![wjob[w]] = HandleDestroy(@)]
    /\ wpc' = [wpc EXCEPT ![w] = "idle"]
    /\ wjob' = [wjob EXCEPT ![w] = 0]
    /\ UNCHANGED <<conf_vars, view_ids, mvs, main_pc, exit_status, scene_saved,
                   next_iter, recon_calls, persisted, ref_views>>

\* save_mve_file() returns.
SaveReturn(w) ==
    /\ main_pc = "batch"
    /\ wpc[w] = "save"
    /\ persisted' = persisted \cup {wjob[w]}
    /\ wpc' = [wpc EXCEPT ![w] = "idle"]
    /\ wjob' = [wjob EXCEPT ![w] = 0]
    /\ UNCHANGED <<conf_vars, view_ids, mvs, main_pc, exit_status, scene_saved,
                   next_iter, job_state, recon_calls, ref_views, progress>>

\* save_mve_file() throws and nothing catches the exception inside the loop:
\* the program ends (a mutant of SaveRaise).
SaveRaiseUncaught(w) ==
    /\ main_pc = "batch"
    /\ wpc[w] = "save"
    /\ main_pc' = "exit"
    /\ exit_status' = 1
    /\ UNCHANGED <<conf_vars, view_ids, mvs, scene_saved, next_iter, wpc, wjob,
                   job_state, recon_calls, persisted, ref_views, progress>>

\* save_mve_file() throws: the same handler prints the error.
SaveRaise(w) ==
    /\ main_pc = "batch"
    /\ wpc[w] = "save"
    /\ wpc' = [wpc EXCEPT ![w] = "idle"]
    /\ wjob' = [wjob EXCEPT ![w] = 0]
    /\ UNCHANGED <<conf_vars, view_ids, mvs, main_pc, exit_status, scene_saved,
                   next_iter, job_state, recon_calls, persisted, ref_views,
                   progress>>

\* The statements after the loop start once all iterations were handed out,
\* without waiting for the threads (a mutant of BatchJoin).
BatchJoinNoWait ==
    /\ main_pc = "batch"
    /\ next_iter > Len(view_ids)
    /\ main_pc' = "finish"
    /\ UNCHANGED <<conf_vars, view_ids, mvs, exit_status, scene_saved, next_iter,
                   wpc, wjob, job_state, recon_calls, persisted, ref_views,
                   progress>>

\* The end of the parallel loop: all iterations were handed out and every
\* thread has finished its own.
BatchJoin ==
    /\ main_pc = "batch"
    /\ next_iter > Len(view_ids)
    /\ \A w \in Threads : wpc[w] = "idle"
    /\ main_pc' = "finish"
    /\ UNCHANGED <<conf_vars, view_ids, mvs, exit_status, scene_saved, next_iter,
                   wpc, wjob, job_state, recon_calls, persisted, ref_views,
                   progress>>

\* "Save scene" and return 0.
SaveScene ==
    /\ main_pc = "finish"
    /\ scene_saved' = TRUE
    /\ exit_status' = 0
    /\ main_pc' = "exit"
    /\ UNCHANGED <<conf_vars, view_ids, mvs, next_iter, wpc, wjob, job_state,
                   recon_calls, persisted, ref_views, progress>>

-----------------------------------------------------------------------------
vars == <<nn_vars, sc_vars, sched_vars>>

InitNN == NNInit /\ ScaleIdle /\ SchedIdle
NextNN == (FindInit \/ FindScan \/ FindFinalize) /\ UNCHANGED <<sc_vars, sched_vars>>
SpecNN == InitNN /\ [][NextNN]_vars

InitScale == ScaleInit /\ NNIdle /\ SchedIdle
NextScale == GetScale /\ UNCHANGED <<nn_vars, sched_vars>>
SpecScale == InitScale /\ [][NextScale]_vars

BatchStep ==
    \/ BatchSetup
    \/ \E w \in Threads :
          \/ IterationSkip(w)
          \/ IterationStart(w)
          \/ ReconReturn(w)
          \/ ReconRaise(w)
          \/ SaveReturn(w)
          \/ SaveRaise(w)
    \/ BatchJoin
    \/ SaveScene

SingleStep ==
    \/ SingleSetup
    \/ SingleReconReturn
    \/ SingleReconRaise

InitSched == SchedInit /\ NNIdle /\ ScaleIdle
NextSched == (BatchStep \/ SingleStep) /\ UNCHANGED <<nn_vars, sc_vars>>
SpecSched == InitSched /\ [][NextSched]_vars

\* The runs over a list of views, with the scale left at 0 (which views are
\* skipped then depends on the views and on --force alone).  Every thread of
\* the team keeps running, and every call of reconstruct() and of
\* save_mve_file() returns or throws: weak fairness of the steps.
InitBatch == InitSched /\ master_id < 0 /\ max_pixels = 0 /\ mvs.scale = 0
NextBatch == BatchStep /\ UNCHANGED <<nn_vars, sc_vars>>
FairSpecBatch == InitBatch /\ [][NextBatch]_vars /\ WF_vars(NextBatch)

-----------------------------------------------------------------------------
(***************************************************************************)
(* Properties of NearestNeighbor<T>::find (checked under SpecNN).          *)
(***************************************************************************)
NumElements == Len(elements)

\* The exact inner product of the query with descriptor i (0-based).
Score(i) == InnerProduct(query, elements[i + 1], Len(query))

\* The lowest index among the descriptors of I with the largest Score.
LowestBest(I) ==
    CHOOSE i \in I : \A j \in I : Score(j) < Score(i) \/ (Score(j) = Score(i) /\ i <= j)

\* C1: after finalization find() returns dist_1st_best <= dist_2nd_best, for
\* every query and every descriptor space of either element type.
C1_DistancesOrdered ==
    nn_pc = "done" =>
        /\ result.dist_1st_best <= result.dist_2nd_best
        /\ result_sse.dist_1st_best <= result_sse.dist_2nd_best

\* C2: with num_elements >= 2 find() returns two distinct indices, also when
\* no inner product exceeds the value the running maxima start from.
C2_IndicesDistinct ==
    (nn_pc = "done" /\ NumElements >= 2) =>
        /\ result.index_1st_best # result.index_2nd_best
        /\ result_sse.index_1st_best # result_sse.index_2nd_best

\* C7: for quantized descriptors whose dimension is a multiple of 8 the SSE
\* loop and the scalar loop return exactly the same indices and distances.
C7_PathsAgree ==
    (nn_pc = "done" /\ elem_type = "short") => result_sse = result

C9_LowestIndexOfMaximum ==
    (nn_pc = "done" /\ NumElements >= 1) =>
        /\ result.index_1st_best = LowestBest(0..(NumElements - 1))
        /\ NumElements >= 2 =>
              result.index_2nd_best =
                  LowestBest((0..(NumElements - 1)) \ {result.index_1st_best})

-----------------------------------------------------------------------------
(***************************************************************************)
(* Properties of get_scale_from_max_pixels (checked under SpecScale).      *)
(***************************************************************************)
ScPixels == sc_width * sc_height

\* C6 as stated: the derived scale is the least s >= 0 with
\* (width * height) >> (2 * s) <= max_pixels.
C6_ScaleIsLeastShift ==
    sc_pc = "done" => sc_scale = ShiftScale(ScPixels, sc_max_pixels, 0)

\* C6 as amended: the derived scale is ceil(log4(width * height / max_pixels))
\* and at least 0, i.e. the least s >= 0 with width * height <= max_pixels * 4^s
\* (the quotient is not truncated); it is the s of the statement above or
\* that s plus one.
C6_ScaleIsCeilLog4 ==
    sc_pc = "done" =>
        /\ sc_scale >= 0
        /\ ScPixels <= sc_max_pixels * Pow4(sc_scale)
        /\ sc_scale > 0 => ScPixels > sc_max_pixels * Pow4(sc_scale - 1)
        /\ sc_scale - ShiftScale(ScPixels, sc_max_pixels, 0) \in {0, 1}

\* A scale was derived that is larger than the least s with
\* (width * height) >> (2 * s) <= max_pixels.
C6_Witness ==
    /\ sc_pc = "done"
    /\ sc_scale >= 2
    /\ sc_scale = ShiftScale(ScPixels, sc_max_pixels, 0) + 1

-----------------------------------------------------------------------------
(***************************************************************************)
(* Properties of dmrecon's main (checked under SpecSched, and under        *)
(* FairSpecBatch where stated).                                            *)
(***************************************************************************)
Jobs == DOMAIN job_state
BatchMode == master_id < 0 /\ main_pc # "start"

\* C3 (under FairSpecBatch): once reconstruct() has thrown for a job of the
\* list, every job of the list still reaches SKIPPED, DONE or FAILED.
C3_SiblingsTerminate ==
    (BatchMode /\ \E i \in Jobs : job_state[i] = "FAILED")
        ~> (\A j \in Jobs : job_state[j] \in Terminal)

\* The run over a list has ended, one job has failed and a job taken after it
\* is done.
C3_Witness ==
    /\ BatchMode /\ main_pc = "exit"
    /\ \E i, j \in Jobs : i < j /\ job_state[i] = "FAILED" /\ job_state[j] = "DONE"
    /\ \A j \in Jobs : job_state[j] \in Terminal

\* The view id of a job that must not be reconstructed, with s the scale of
\* the job: out of range, no view or no valid camera, or "depth-L<s>" exists
\* and --force was not given.
C4_MustSkip(id, s) ==
    \/ id < 0 \/ id >= NumViews
    \/ ~views[id].present
    \/ ~views[id].camera_valid
    \/ (~force_recon /\ s \in views[id].depth_scales)

\* C4: over a list of views reconstruct() is never called for such a view id,
\* and the job of every iteration taken for such a view id is SKIPPED.
C4_SkippedNeverReconstructed ==
    BatchMode =>
        /\ \A c \in recon_calls : ~C4_MustSkip(c.view, c.scale)
        /\ \A i \in Jobs :
              (i < next_iter /\ C4_MustSkip(view_ids[i], JobScale(view_ids[i])))
                  => job_state[i] = "SKIPPED"

\* The run over a list has ended: the job of a view with a valid camera was
\* skipped because its embedding exists, and another job is done.
C4_Witness ==
    /\ BatchMode /\ main_pc = "exit"
    /\ \E i \in Jobs :
          /\ job_state[i] = "SKIPPED"
          /\ view_ids[i] < NumViews
          /\ views[view_ids[i]].present
          /\ views[view_ids[i]].camera_valid
    /\ \E j \in Jobs : job_state[j] = "DONE"

\* C5: no two jobs of the list are RUNNING for the same view at the same
\* time, for every list of view ids.
C5_NoTwoJobsOnOneView ==
    BatchMode =>
        \A i, j \in Jobs :
            (i # j /\ job_state[i] = "RUNNING" /\ job_state[j] = "RUNNING")
                => view_ids[i] # view_ids[j]

\* C10: with --master-view, once reconstruct() has thrown, main has returned
\* a non-zero status and the scene was not saved.
C10_SingleFailureAborts ==
    (master_id >= 0 /\ job_state = <<"FAILED">>) =>
        /\ main_pc = "exit"
        /\ exit_status \notin {-1, 0}
        /\ ~scene_saved

\* reconstruct() has thrown for the master view.
C10_Witness ==
    /\ master_id >= 0
    /\ job_state = <<"FAILED">>
    /\ recon_calls # {}

-----------------------------------------------------------------------------
(***************************************************************************)
(* Further properties of NearestNeighbor<T>::find (checked under SpecNN).  *)
(***************************************************************************)
\* The largest inner product of two descriptors of the domain, and the
\* largest distance the conversion at the end of find() yields.
MaxScore(type) == IF type = "short" THEN 127 * 127 ELSE FloatOne
MaxDistance(type) == IF type = "short" THEN 2 * 127 * 127 ELSE FloatOne

\* C14: with num_elements = 0, find() returns dist_1st_best = dist_2nd_best =
\* the largest distance the finalization yields (no returned distance of any
\* search is larger), for every query, element type and build.
C14_EmptySpaceLargestDistance ==
    nn_pc = "done" =>
        /\ \A r \in {result, result_sse} :
              /\ r.dist_1st_best <= MaxDistance(elem_type)
              /\ r.dist_2nd_best <= MaxDistance(elem_type)
        /\ NumElements = 0 =>
              \A r \in {result, result_sse} :
                  /\ r.dist_1st_best = r.dist_2nd_best
                  /\ r.dist_1st_best = MaxDistance(elem_type)

\* A search over an empty descriptor space has finished.
C14_Witness ==
    /\ nn_pc = "done"
    /\ NumElements = 0
    /\ result.dist_1st_best = MaxDistance(elem_type)

\* A descriptor whose inner product with itself is the largest score.
Normalized(v) == InnerProduct(v, v, Len(v)) = MaxScore(elem_type)

C19_DistancesFromExactProducts ==
    (nn_pc = "done" /\ elem_type = "short" /\ NumElements >= 2) =>
        /\ result.dist_1st_best =
              32258 - 2 * Min(16129, Max(0, Score(result.index_1st_best)))
        /\ result.dist_2nd_best =
              32258 - 2 * Min(16129, Max(0, Score(result.index_2nd_best)))

-----------------------------------------------------------------------------
(***************************************************************************)
(* Further properties of dmrecon's main (checked under SpecSched).         *)
(***************************************************************************)
\* The view of job i of the list has a valid camera.
ValidView(i) ==
    /\ ~OutOfRange(views, view_ids[i])
    /\ views[view_ids[i]].present
    /\ views[view_ids[i]].camera_valid

\* C11: with --master-view, reconstruct() is called exactly once, for the
\* master view, whatever --force and the embeddings of the view are; main
\* waits for the call, no thread of a loop works, and there is no other job.
C11_SingleMasterRunsOnce ==
    (master_id >= 0 /\ main_pc # "start") =>
        /\ Cardinality(recon_calls) = 1
        /\ \A c \in recon_calls : c.view = master_id /\ c.job = 1
        /\ Len(job_state) = 1
        /\ job_state[1] # "SKIPPED"
        /\ job_state[1] = "RUNNING" <=> main_pc = "single_recon"
        /\ \A w \in Threads : wpc[w] = "idle" /\ wjob[w] = 0

\* The run for a master view has ended with status 0: --force was not given
\* and the embedding "depth-L<scale>" of the master view existed, yet
\* reconstruct() was called.
C11_Witness ==
    /\ master_id \in 0..(NumViews - 1)
    /\ main_pc = "exit"
    /\ exit_status = 0
    /\ ~force_recon
    /\ views[master_id].camera_valid
    /\ mvs.scale \in views[master_id].depth_scales
    /\ recon_calls # {}

\* C12: over a list of views, for a job taken from the list whose view has a
\* valid camera and the embedding "depth-L<scale>" of the job's scale:
\* without --force the job is SKIPPED and reconstruct() is not called for it;
\* with --force reconstruct() is called for it (the job is RUNNING, and DONE
\* or FAILED afterwards).
C12_ForceDecidesExisting ==
    BatchMode =>
        \A i \in Jobs :
            ( /\ i < next_iter
              /\ ValidView(i)
              /\ JobScale(view_ids[i]) \in views[view_ids[i]].depth_scales )
            => IF force_recon
               THEN /\ job_state[i] \in {"RUNNING", "DONE", "FAILED"}
                    /\ \E c \in recon_calls : c.job = i /\ c.view = view_ids[i]
               ELSE /\ job_state[i] = "SKIPPED"
                    /\ \A c \in recon_calls : c.job # i

\* With --force, the job of a view whose embedding exists is RUNNING.
C12_Witness ==
    /\ BatchMode
    /\ force_recon
    /\ \E i \in Jobs :
          /\ i < next_iter
          /\ ValidView(i)
          /\ JobScale(view_ids[i]) \in views[view_ids[i]].depth_scales
          /\ job_state[i] = "RUNNING"

\* C13: in every run, for every list of view ids, reconstruct() is called at
\* most once per view id.
C13_AtMostOneCallPerView ==
    \A c1, c2 \in recon_calls : c1.view = c2.view => c1 = c2

\* The view ids main gives to the progress printer before the first job.
JobList == IF master_id >= 0 THEN <<master_id>> ELSE view_ids

\* C15: the progress printer has got the full list of view ids before the
\* first ProgressHandle tells it that a job started; what a handle tells is
\* "started" alone while reconstruct() runs, "started, done" once it has
\* returned and "started, failed" once it has thrown, and when main has
\* ended every started job has got its one final status.
C15_ProgressProtocol ==
    main_pc \notin {"idle", "start"} =>
        /\ (\E i \in Jobs : progress[i] # <<>>) => ref_views = JobList
        /\ \A i \in Jobs :
              /\ progress[i] \in {<<>>, <<"started">>, <<"started", "done">>,
                                  <<"started", "failed">>}
              /\ job_state[i] = "RUNNING" <=> progress[i] = <<"started">>
              /\ job_state[i] = "DONE" <=> progress[i] = <<"started", "done">>
              /\ job_state[i] = "FAILED" <=> progress[i] = <<"started", "failed">>
              /\ main_pc = "exit" => Len(progress[i]) # 1

\* The run over a list has ended: one job has told "started, done" and
\* another "started, failed", after the list of both views was registered.
C15_Witness ==
    /\ BatchMode /\ main_pc = "exit"
    /\ Len(ref_views) >= 2
    /\ \E i, j \in Jobs :
          /\ progress[i] = <<"started", "done">>
          /\ progress[j] = <<"started", "failed">>

\* C17: with --master-view and --max-pixels, the scale of the call of
\* reconstruct() is the scale derived from the image of the master view.
C17_ScaleFromMasterView ==
    (master_id >= 0 /\ max_pixels > 0 /\ main_pc # "start") =>
        \A c \in recon_calls :
            c.scale = GetScaleFromMaxPixels(views, master_id, max_pixels)

\* In every state of a run over a list: a thread inside save_mve_file() holds
\* a job whose reconstruct() has returned, and so does every saved job.
PersistOnlyDone ==
    BatchMode =>
        /\ \A w \in Threads :
              wpc[w] = "save" => (wjob[w] \in Jobs /\ job_state[wjob[w]] = "DONE")
        /\ \A i \in persisted : i \in Jobs /\ job_state[i] = "DONE"

\* In every step: a thread enters save_mve_file() only in the step in which
\* its own call of reconstruct() returns, and for the job of that call.
PersistEntered ==
    \A w \in Threads :
        (wpc'[w] = "save" /\ wpc[w] # "save") =>
            /\ wpc[w] = "recon"
            /\ wjob'[w] = wjob[w]
            /\ job_state[wjob[w]] = "RUNNING"
            /\ job_state'[wjob[w]] = "DONE"

\* C18: over a list of views, save_mve_file() of a view is called only after
\* reconstruct() for the same job has returned, by the thread that called
\* it, and never for a job whose reconstruct() has thrown or that was
\* skipped.
C18_PersistOnlyAfterSuccess == []PersistOnlyDone /\ [][PersistEntered]_vars

\* The run over a list has ended: one view was saved, and the job of the
\* other view has failed.
C18_Witness ==
    /\ BatchMode /\ main_pc = "exit"
    /\ \E i, j \in Jobs :
          /\ i \in persisted
          /\ job_state[j] = "FAILED" /\ j \notin persisted

\* C20: over a list of views, scene->save_views() and the return of 0 happen
\* only when every job is SKIPPED, DONE or FAILED and no thread is left in
\* the loop; main ends with status 0 and the scene saved, whatever the
\* numbers of skipped and failed jobs.
C20_SceneSavedAfterAllJobs ==
    BatchMode =>
        /\ (main_pc \in {"finish", "exit"} \/ scene_saved \/ exit_status # -1) =>
              /\ \A j \in Jobs : job_state[j] \in Terminal
              /\ \A w \in Threads : wpc[w] = "idle"
        /\ exit_status \in {-1, 0}
        /\ main_pc = "exit" <=> exit_status = 0
        /\ main_pc = "exit" <=> scene_saved

\* The run over a list has ended with status 0 and no job is DONE: one was
\* skipped and one has failed.
C20_Witness ==
    /\ BatchMode /\ main_pc = "exit"
    /\ exit_status = 0 /\ scene_saved
    /\ \E i, j \in Jobs : job_state[i] = "SKIPPED" /\ job_state[j] = "FAILED"
    /\ \A i \in Jobs : job_state[i] # "DONE"

-----------------------------------------------------------------------------
(***************************************************************************)
(* Properties of the save of a view (checked under FairSpecBatch).         *)
(***************************************************************************)
\* save_mve_file() has thrown for job i: reconstruct() has returned, the
\* view was not saved and no thread holds the job any more.
PersistRaised(i) ==
    /\ BatchMode
    /\ job_state[i] = "DONE"
    /\ i \notin persisted
    /\ \A w \in Threads : wjob[w] # i

\* In every state: the ProgressHandle of a job has told "started, done"
\* before a thread is inside save_mve_file() for the job, and that is still
\* what the printer was told once the save has returned or thrown; main has
\* no status other than 0.
FinishedBeforePersist ==
    BatchMode =>
        /\ \A w \in Threads :
              wpc[w] = "save" => progress[wjob[w]] = <<"started", "done">>
        /\ \A i \in Jobs :
              (i \in persisted \/ PersistRaised(i)) =>
                  progress[i] = <<"started", "done">>
        /\ exit_status \in {-1, 0}

\* In every step in which save_mve_file() throws (a thread leaves the save
\* and its view is not saved), only that thread changes: it is free for the
\* next iteration, and the jobs, what the printer was told, main and the
\* other threads are as before.
PersistRaiseStep ==
    \A w \in Threads :
        (wpc[w] = "save" /\ wpc'[w] # "save" /\ wjob[w] \notin persisted') =>
            /\ wpc'[w] = "idle"
            /\ job_state' = job_state
            /\ progress' = progress
            /\ main_pc' = main_pc /\ exit_status' = exit_status
            /\ next_iter' = next_iter
            /\ \A v \in Threads \ {w} : wpc'[v] = wpc[v] /\ wjob'[v] = wjob[v]

\* C21 (under FairSpecBatch): over a list of views the printer is told that a
\* job is done before save_mve_file() of its view is entered; if the save
\* throws, the job stays done for the printer, nothing but the thread's
\* position changes, and the run goes on until every job is SKIPPED, DONE or
\* FAILED and main has returned 0.
C21_PersistFailureIsolated ==
    /\ []FinishedBeforePersist
    /\ [][PersistRaiseStep]_vars
    /\ (\E i \in Jobs : PersistRaised(i))
          ~> ( /\ main_pc = "exit" /\ exit_status = 0
               /\ \A j \in Jobs : job_state[j] \in Terminal )

\* The run over a list has ended with status 0: save_mve_file() has thrown
\* for one job, which the printer still shows as done, and the view of a job
\* taken after it was saved.
C21_Witness ==
    /\ BatchMode /\ main_pc = "exit" /\ exit_status = 0
    /\ \E i, j \in Jobs :
          /\ i < j
          /\ PersistRaised(i)
          /\ progress[i] = <<"started", "done">>
          /\ j \in persisted

=============================================================================
